---- MODULE Spec2Model ----
(***************************************************************************)
(* Model of the authentication and session module, src/auth.py             *)
(* (class AuthManager).  The two JSON files are the persistent state; each *)
(* public operation loads a whole collection, changes its copy and writes  *)
(* the whole collection back.                                              *)
(*                                                                         *)
(* Time is counted in ticks of 24 hours, so timedelta(hours=24) is TTL     *)
(* ticks and strftime("%Y%m%d") of an instant is its tick.                 *)
(* Every datetime.now() call is a separate read of a non-decreasing clock: *)
(* a call is short against a tick, so the clock passes at most one tick    *)
(* boundary while it runs, before any one of its reads.  Between calls     *)
(* any amount of time may pass (Tick).                                     *)
(***************************************************************************)
EXTENDS Integers, Sequences, FiniteSets, TLC

VARIABLES
    users_file,     \* content of users.json
    sessions_file,  \* content of sessions.json
    now,            \* the clock: what datetime.now() returns if called at once
    issued,         \* the identifiers uuid.uuid4() has returned so far
    ret,            \* the call that has just returned and its result; "tick"
                    \* once time has passed since
    calls,          \* how many calls have been made
    proc,           \* for each process, when calls are followed one file
                    \* access at a time: the call it is in, how far it has
                    \* got, its copies of the collections and its result
    session_state,  \* st.session_state of one browser session
    run             \* the last script run of that browser session: the page
                    \* it rendered, what validate_session told it, the
                    \* widget event it handled, whether it ended in st.rerun()

\* the state of the browser session
ui == <<session_state, run>>

vars == <<users_file, sessions_file, now, issued, ret, calls, proc, ui>>

----------------------------------------------------------------------------
(* Bounds of the model *)

MaxTime == 2
MaxCalls == 2

(* timedelta(hours=24), in ticks of 24 hours *)
TTL == 1

----------------------------------------------------------------------------
(* Inputs *)

Usernames == {"", "alice", "bob"}
Passwords == {"", "secret1", "other"}
Roles == {"investor", "investee", "admin"}

\* the identifiers uuid.uuid4() can return
Tokens == {"uuid-1", "uuid-2"}
SessionIds == Tokens \cup {""}

\* The clock values n successive datetime.now() calls of one operation can
\* return: the reads from some d-th one on see the next tick.
ClockReads(n) ==
    {[i \in 1..n |-> IF i >= d THEN now + 1 ELSE now] :
        d \in {k \in 1..(n + 1) : k = n + 1 \/ now < MaxTime}}

----------------------------------------------------------------------------
(* Python values *)

None == [none |-> TRUE]

\* an Optional[str] that is not None
Str(s) == [str |-> s]

EmptyDict == <<>>

\* what a call that raises leaves in place of a return value
Raised(exception) == [raised |-> exception]

\* d[k] = v
Put(d, k, v) == [x \in (DOMAIN d) \cup {k} |-> IF x = k THEN v ELSE d[x]]

\* del d[k]
Del(d, k) == [x \in (DOMAIN d) \ {k} |-> d[x]]

\* d.get(k)
Get(d, k) == IF k \in DOMAIN d THEN d[k] ELSE None

\* datetime.isoformat() and datetime.fromisoformat()
isoformat(t) == [iso |-> t]
fromisoformat(s) == s.iso

\* datetime.strftime("%Y%m%d"): the calendar day of an instant
strftime_Ymd(t) == t

\* json.dump / json.load of a dict of string keys
json_dump(d) == [json |-> d]
json_load(f) == f.json

----------------------------------------------------------------------------
(* AuthManager: the data-access helpers *)

\* a file that is missing or does not parse makes open / json.load raise
Readable(file) == "json" \in DOMAIN file

\* load_users as it would be without the try / except of lines 24 and 27
load_users_unguarded(file) ==
    IF Readable(file) THEN json_load(file) ELSE Raised("JSONDecodeError")

load_users(file) == IF Readable(file) THEN json_load(file) ELSE EmptyDict

save_users(users) == json_dump(users)

load_sessions(file) == IF Readable(file) THEN json_load(file) ELSE EmptyDict

save_sessions(sessions) == json_dump(sessions)

\* hashlib.sha256(password.encode()).hexdigest()
hash_password(password) ==
    CASE password = "" ->
           "e3b0c44298fc1c149afbf4c8996fb92427ae41e4649b934ca495991b7852b855"
      [] password = "secret1" ->
           "5b11618c2e44027877d0cd0921ed166b9f176f50587fc91e7534dd2946db77d6"
      [] password = "other" ->
           "d9298a10d1b0735837dc4bd85dac641b0f3cef27a47e5d53a54f2f3f5b2fcffa"

\* hashlib.md5(username.encode()).hexdigest()[:6].upper()
username_hash(username) ==
    CASE username = "" -> "D41D8C"
      [] username = "alice" -> "6384E2"
      [] username = "bob" -> "9F9D51"

\* str.title()
title(username) ==
    CASE username = "" -> ""
      [] username = "alice" -> "Alice"
      [] username = "bob" -> "Bob"

\* generate_client_id as it would be with one prefix for both roles
role_prefix_fixed(role) == "INV"

role_prefix(role) == IF role = "investor" THEN "INV" ELSE "IVE"

\* f"{role_prefix}_{username_hash}_{timestamp}", t the clock read of line 54
generate_client_id(username, role, t) ==
    [role_prefix |-> role_prefix(role),
     username_hash |-> username_hash(username),
     timestamp |-> strftime_Ymd(t)]

----------------------------------------------------------------------------
(* The processes that share the two files *)

Processes == {"p1", "p2"}

\* the collection an operation loads first
first_access(op) ==
    IF op \in {"register_user", "authenticate_user", "get_user_info"}
    THEN "load_users"
    ELSE "load_sessions"

\* a call that has just been entered: its arguments, the file access it is
\* about to make, and nothing loaded yet
frame(op, username, password, role, session_id) ==
    [pc |-> first_access(op), op |-> op, username |-> username,
     password |-> password, role |-> role, session_id |-> session_id,
     users |-> EmptyDict, sessions |-> EmptyDict, result |-> None]

\* a call that has returned result: its local variables are gone
returned(self, result) ==
    [self EXCEPT !.pc = "idle", !.users = EmptyDict, !.sessions = EmptyDict,
                 !.result = result]

\* a process that has made no call yet
NotCalled == returned(frame("__init__", "", "", "", ""), None)

\* no script has run yet in the browser session
NoRun == [page |-> "none", validated |-> "not called", event |-> "none",
          rerun |-> FALSE]

----------------------------------------------------------------------------
(* The state the files hold *)

Users == load_users(users_file)
Sessions == load_sessions(sessions_file)

Init ==
    /\ users_file = save_users(EmptyDict)
    /\ sessions_file = save_sessions(EmptyDict)
    /\ now = 0
    /\ issued = {}
    /\ ret = [op |-> "__init__"]
    /\ calls = 0
    /\ proc = [p \in Processes |-> NotCalled]
    /\ session_state = EmptyDict
    /\ run = NoRun

----------------------------------------------------------------------------
(* AuthManager.create_session *)

\* create_session as it would be without the timedelta of line 115
new_session_no_ttl(username, t_created, t_expiry) ==
    [username |-> username,
     created_at |-> isoformat(t_created),
     expires_at |-> isoformat(t_expiry)]

\* the record stored under sessions[session_id]; t_created and t_expiry are
\* the two clock reads of lines 114 and 115
new_session(username, t_created, t_expiry) ==
    [username |-> username,
     created_at |-> isoformat(t_created),
     expires_at |-> isoformat(t_expiry + TTL)]

\* uuid.uuid4() as it would be if it could return an identifier again
uuid4_repeating == Tokens

\* str(uuid.uuid4()): any identifier that no earlier call has returned
uuid4 == Tokens \ issued

\* create_session as it would be with the record never stored
create_session_result_unsaved(sessions, username, session_id, t) ==
    [sessions |-> sessions, result |-> session_id]

\* create_session as it would be sweeping expired records out on the way
create_session_result_sweeping(sessions, username, session_id, t) ==
    LET alive == {x \in DOMAIN sessions :
                     fromisoformat(sessions[x].expires_at) >= t[1]}
    IN  [sessions |-> Put([x \in alive |-> sessions[x]], session_id,
                          new_session(username, t[1], t[2])),
         result |-> session_id]

\* the session collection written back and the value returned; t holds the
\* clock reads of lines 114 and 115
create_session_result(sessions, username, session_id, t) ==
    [sessions |-> Put(sessions, session_id, new_session(username, t[1], t[2])),
     result |-> session_id]

create_session(username) ==
    \E session_id \in uuid4, t \in ClockReads(2) :
        LET r == create_session_result(load_sessions(sessions_file), username,
                                       session_id, t)
        IN  /\ sessions_file' = save_sessions(r.sessions)
            /\ issued' = issued \cup {session_id}
            /\ now' = t[2]
            /\ ret' = [op |-> "create_session", username |-> username,
                       result |-> r.result]
            /\ UNCHANGED users_file

----------------------------------------------------------------------------
(* AuthManager.register_user *)

\* register_user as it would be with the empty-field check made first
register_error_reordered(users, username, password, role) ==
    IF username = "" \/ password = "" THEN "Username and password are required"
    ELSE IF username \in DOMAIN users THEN "Username already exists"
    ELSE IF role \notin {"investor", "investee"} THEN "Invalid role selected"
    ELSE ""

\* register_user as it would be without the role check
register_error_any_role(users, username, password, role) ==
    IF username \in DOMAIN users THEN "Username already exists"
    ELSE IF username = "" \/ password = "" THEN "Username and password are required"
    ELSE ""

\* register_user as it would be without the duplicate check
register_error_no_duplicate_check(users, username, password, role) ==
    IF username = "" \/ password = "" THEN "Username and password are required"
    ELSE IF role \notin {"investor", "investee"} THEN "Invalid role selected"
    ELSE ""

\* register_user as it would be without the empty-field check
register_error_no_empty_check(users, username, password, role) ==
    IF username \in DOMAIN users THEN "Username already exists"
    ELSE IF role \notin {"investor", "investee"} THEN "Invalid role selected"
    ELSE ""

\* the three early returns: the message of the first that applies, "" if none
register_error(users, username, password, role) ==
    IF username \in DOMAIN users THEN "Username already exists"
    ELSE IF username = "" \/ password = "" THEN "Username and password are required"
    ELSE IF role \notin {"investor", "investee"} THEN "Invalid role selected"
    ELSE ""

\* register_user as it would be storing the password unhashed
new_user_plaintext(username, password, role, client_id, t_created, t_login) ==
    [password |-> password,
     role |-> role,
     full_name |-> title(username),
     client_id |-> client_id,
     created_at |-> isoformat(t_created),
     last_login |-> isoformat(t_login)]

\* the record stored under users[username]; t_created and t_login are the
\* two clock reads of lines 79 and 80
new_user(username, password, role, client_id, t_created, t_login) ==
    [password |-> hash_password(password),
     role |-> role,
     full_name |-> title(username),
     client_id |-> client_id,
     created_at |-> isoformat(t_created),
     last_login |-> isoformat(t_login)]

failure_message(text) == [text |-> text]

\* f"User registered successfully! Client ID: {client_id}"
success_message(client_id) ==
    [text |-> "User registered successfully! Client ID: ", client_id |-> client_id]

\* Both collections as the call leaves them, the value returned, and whether
\* the call got as far as writing.  t holds the clock reads of lines 54, 79,
\* 80 and, inside create_session, 114 and 115.
register_user_result(users, sessions, username, password, role, session_id, t) ==
    LET error == register_error(users, username, password, role)
        client_id == generate_client_id(username, role, t[1])
        user == new_user(username, password, role, client_id, t[2], t[3])
        s == create_session_result(sessions, username, session_id, <<t[4], t[5]>>)
    IN  IF error # ""
        THEN [users |-> users, sessions |-> sessions, saved |-> FALSE,
              result |-> <<FALSE, failure_message(error), "">>]
        ELSE [users |-> Put(users, username, user), sessions |-> s.sessions,
              saved |-> TRUE,
              result |-> <<TRUE, success_message(client_id), s.result>>]

register_user(username, password, role) ==
    LET users == load_users(users_file)
        sessions == load_sessions(sessions_file)
    IN  IF register_error(users, username, password, role) # ""
        THEN \* an early return: no clock read, no identifier drawn
             LET r == register_user_result(users, sessions, username, password,
                                           role, "", <<now, now, now, now, now>>)
             IN  /\ ret' = [op |-> "register_user", username |-> username,
                       result |-> r.result]
                 /\ UNCHANGED <<users_file, sessions_file, issued, now>>
        ELSE \E session_id \in uuid4, t \in ClockReads(5) :
                LET r == register_user_result(users, sessions, username, password,
                                              role, session_id, t)
                IN  /\ ret' = [op |-> "register_user", username |-> username,
                       result |-> r.result]
                    /\ users_file' = save_users(r.users)
                    /\ sessions_file' = save_sessions(r.sessions)
                    /\ issued' = issued \cup {session_id}
                    /\ now' = t[5]

----------------------------------------------------------------------------
(* AuthManager.authenticate_user *)

\* authenticate_user as it would be without the comparison of line 98
password_matches_any(user, password) == TRUE

password_matches(user, password) == user.password = hash_password(password)

\* authenticate_user as it would be without the last_login update
logged_in_stale(user, t) == user

\* the record with last_login refreshed at clock read t
logged_in(user, t) == [user EXCEPT !.last_login = isoformat(t)]

\* authenticate_user as it would be handing the record back on a wrong password
login_refused_leaky(users, username) ==
    IF username \in DOMAIN users THEN <<FALSE, users[username]>> ELSE <<FALSE, None>>

\* what both failing paths return (lines 95 and 105)
login_refused(users, username) == <<FALSE, None>>

\* authenticate_user as it would be recording refused attempts in last_login
authenticate_user_result_recording(users, username, password, t) ==
    IF username \in DOMAIN users
    THEN [users |-> Put(users, username, logged_in(users[username], t)),
          saved |-> TRUE,
          result |-> IF password_matches(users[username], password)
                     THEN <<TRUE, logged_in(users[username], t)>>
                     ELSE login_refused(users, username)]
    ELSE [users |-> users, saved |-> FALSE,
          result |-> login_refused(users, username)]

\* The user collection as the call leaves it, the value returned, and
\* whether the call wrote.  t is the clock read of line 100.
authenticate_user_result(users, username, password, t) ==
    IF username \in DOMAIN users /\ password_matches(users[username], password)
    THEN [users |-> Put(users, username, logged_in(users[username], t)),
          saved |-> TRUE,
          result |-> <<TRUE, logged_in(users[username], t)>>]
    ELSE [users |-> users, saved |-> FALSE,
          result |-> login_refused(users, username)]

authenticate_user(username, password) ==
    LET users == load_users(users_file)
    IN  IF authenticate_user_result(users, username, password, now).saved
        THEN \E t \in ClockReads(1) :
                LET r == authenticate_user_result(users, username, password, t[1])
                IN  /\ ret' = [op |-> "authenticate_user", username |-> username,
                       result |-> r.result]
                    /\ users_file' = save_users(r.users)
                    /\ now' = t[1]
                    /\ UNCHANGED <<sessions_file, issued>>
        ELSE \* a refusal: no clock read, nothing written
             LET r == authenticate_user_result(users, username, password, now)
             IN  /\ ret' = [op |-> "authenticate_user", username |-> username,
                       result |-> r.result]
                 /\ UNCHANGED <<users_file, sessions_file, issued, now>>

----------------------------------------------------------------------------
(* AuthManager.validate_session *)

\* validate_session as it would be with >= in the comparison of line 131
session_expired_inclusive(t, session) == t >= fromisoformat(session.expires_at)

\* datetime.now() > expires_at, t the clock read of line 131
session_expired(t, session) == t > fromisoformat(session.expires_at)

\* validate_session as it would be without the del of line 133
evict_keep(sessions, session_id) == sessions

\* the collection written back when a session is found expired
evict(sessions, session_id) == Del(sessions, session_id)

\* The session collection as the call leaves it, the value returned, whether
\* the call wrote, and whether it read the clock.  t is the clock read of
\* line 131.
validate_session_result(sessions, session_id, t) ==
    IF session_id \notin DOMAIN sessions
    THEN [sessions |-> sessions, saved |-> FALSE, read |-> FALSE,
          result |-> <<FALSE, None>>]
    ELSE IF session_expired(t, sessions[session_id])
    THEN [sessions |-> evict(sessions, session_id), saved |-> TRUE, read |-> TRUE,
          result |-> <<FALSE, None>>]
    ELSE [sessions |-> sessions, saved |-> FALSE, read |-> TRUE,
          result |-> <<TRUE, Str(sessions[session_id].username)>>]

validate_session(session_id) ==
    LET sessions == load_sessions(sessions_file)
    IN  IF validate_session_result(sessions, session_id, now).read
        THEN \E t \in ClockReads(1) :
                LET r == validate_session_result(sessions, session_id, t[1])
                IN  /\ ret' = [op |-> "validate_session", session_id |-> session_id,
                       result |-> r.result]
                    /\ IF r.saved
                       THEN sessions_file' = save_sessions(r.sessions)
                       ELSE UNCHANGED sessions_file
                    /\ now' = t[1]
                    /\ UNCHANGED <<users_file, issued>>
        ELSE \* an unknown identifier: no clock read, nothing written
             LET r == validate_session_result(sessions, session_id, now)
             IN  /\ ret' = [op |-> "validate_session", session_id |-> session_id,
                       result |-> r.result]
                 /\ UNCHANGED <<users_file, sessions_file, issued, now>>

----------------------------------------------------------------------------
(* AuthManager.logout_user *)

\* logout_user as it would be without the membership test of line 142
logout_user_result_unguarded(sessions, session_id) ==
    [sessions |-> Del(sessions, session_id),
     saved |-> session_id \in DOMAIN sessions,
     raised |-> session_id \notin DOMAIN sessions]

\* logout_user as it would be ending every session of the same user
logout_user_result_everywhere(sessions, session_id) ==
    IF session_id \in DOMAIN sessions
    THEN [sessions |-> [x \in {y \in DOMAIN sessions :
                                  sessions[y].username # sessions[session_id].username}
                           |-> sessions[x]],
          saved |-> TRUE, raised |-> FALSE]
    ELSE [sessions |-> sessions, saved |-> FALSE, raised |-> FALSE]

\* The session collection as the call leaves it, whether the call wrote, and
\* whether it raised (del of a missing key is a KeyError).
logout_user_result(sessions, session_id) ==
    IF session_id \in DOMAIN sessions
    THEN [sessions |-> Del(sessions, session_id), saved |-> TRUE, raised |-> FALSE]
    ELSE [sessions |-> sessions, saved |-> FALSE, raised |-> FALSE]

logout_user(session_id) ==
    LET r == logout_user_result(load_sessions(sessions_file), session_id)
    IN  /\ IF r.saved
           THEN sessions_file' = save_sessions(r.sessions)
           ELSE UNCHANGED sessions_file
        /\ ret' = [op |-> "logout_user", session_id |-> session_id,
                   result |-> IF r.raised THEN Raised("KeyError") ELSE None]
        /\ UNCHANGED <<users_file, now, issued>>

----------------------------------------------------------------------------
(* AuthManager.get_user_info *)

get_user_info(username) ==
    /\ ret' = [op |-> "get_user_info", username |-> username,
               result |-> Get(load_users(users_file), username)]
    /\ UNCHANGED <<users_file, sessions_file, now, issued>>

----------------------------------------------------------------------------
(* Time passing between two calls *)

Tick ==
    /\ now < MaxTime
    /\ now' = now + 1
    /\ ret' = [op |-> "tick"]
    /\ UNCHANGED <<users_file, sessions_file, issued, calls, proc, ui>>

----------------------------------------------------------------------------
(* Any sequence of at most MaxCalls calls of the public operations by one  *)
(* process, with time passing in between                                   *)

Next ==
    \/ Tick
    \/ \E username \in Usernames, password \in Passwords, role \in Roles :
          calls < MaxCalls /\ calls' = calls + 1 /\ UNCHANGED <<proc, ui>>
          /\ register_user(username, password, role)
    \/ \E username \in Usernames, password \in Passwords :
          calls < MaxCalls /\ calls' = calls + 1 /\ UNCHANGED <<proc, ui>>
          /\ authenticate_user(username, password)
    \/ \E username \in Usernames :
          calls < MaxCalls /\ calls' = calls + 1 /\ UNCHANGED <<proc, ui>>
          /\ create_session(username)
    \/ \E session_id \in SessionIds :
          calls < MaxCalls /\ calls' = calls + 1 /\ UNCHANGED <<proc, ui>>
          /\ validate_session(session_id)
    \/ \E session_id \in SessionIds :
          calls < MaxCalls /\ calls' = calls + 1 /\ UNCHANGED <<proc, ui>>
          /\ logout_user(session_id)
    \/ \E username \in Usernames :
          calls < MaxCalls /\ calls' = calls + 1 /\ UNCHANGED <<proc, ui>>
          /\ get_user_info(username)

Spec == Init /\ [][Next]_vars

----------------------------------------------------------------------------
(* The same calls by an AuthManager constructed on files that earlier     *)
(* calls have filled: ensure_files_exist leaves existing files as they are *)

\* what register_user("alice", "secret1", "investor") leaves and returns
registered ==
    register_user_result(EmptyDict, EmptyDict, "alice", "secret1", "investor",
                         "uuid-1", <<0, 0, 0, 0, 0>>)

\* what a later create_session("alice"), a second login, leaves and returns
logged_in_twice ==
    create_session_result(registered.sessions, "alice", "uuid-2", <<0, 0>>)

InitStored ==
    /\ users_file = save_users(registered.users)
    /\ \/ /\ sessions_file = save_sessions(registered.sessions)
          /\ issued = {registered.result[3]}
       \/ /\ sessions_file = save_sessions(logged_in_twice.sessions)
          /\ issued = {registered.result[3], logged_in_twice.result}
    /\ now = 0
    /\ ret = [op |-> "__init__"]
    /\ calls = 0
    /\ proc = [p \in Processes |-> NotCalled]
    /\ session_state = EmptyDict
    /\ run = NoRun

SpecStored == InitStored /\ [][Next]_vars

----------------------------------------------------------------------------
(* The same calls with users.json damaged from outside between two calls   *)

\* users.json removed, made unreadable (but still writable) for the
\* process, or overwritten with text that is not JSON
Faults == {"missing", "unreadable", "unparsable"}

Faulty(kind) == [fault |-> kind]

Fault ==
    /\ \E kind \in Faults : users_file' = Faulty(kind)
    /\ ret' = [op |-> "fault"]
    /\ UNCHANGED <<sessions_file, now, issued, calls, proc, ui>>

NextFault == Next \/ Fault

SpecFault == Init /\ [][NextFault]_vars

----------------------------------------------------------------------------
(* The calls followed one file access at a time.  A call is entered, then  *)
(* makes its loads and saves one by one; what it computes between two file *)
(* accesses is part of the step of the earlier one.  Other processes take  *)
(* their steps in between.                                                 *)

Call(p) ==
    /\ proc[p].pc = "idle"
    /\ calls < MaxCalls
    /\ calls' = calls + 1
    /\ \/ \E username \in Usernames, password \in Passwords, role \in Roles :
             proc' = [proc EXCEPT
                         ![p] = frame("register_user", username, password, role, "")]
       \/ \E username \in Usernames, password \in Passwords :
             proc' = [proc EXCEPT
                         ![p] = frame("authenticate_user", username, password, "", "")]
       \/ \E username \in Usernames :
             proc' = [proc EXCEPT ![p] = frame("create_session", username, "", "", "")]
       \/ \E session_id \in SessionIds :
             proc' = [proc EXCEPT ![p] = frame("validate_session", "", "", "", session_id)]
       \/ \E session_id \in SessionIds :
             proc' = [proc EXCEPT ![p] = frame("logout_user", "", "", "", session_id)]
       \/ \E username \in Usernames :
             proc' = [proc EXCEPT ![p] = frame("get_user_info", username, "", "", "")]
    /\ UNCHANGED <<users_file, sessions_file, now, issued, ret, ui>>

\* register_user lines 61-81, authenticate_user lines 92-101 and
\* get_user_info: the load of users.json and what follows it up to the next
\* file access or the return
LoadUsers(p) ==
    LET self == proc[p]
        users == load_users(users_file)
    IN  /\ self.pc = "load_users"
        /\ UNCHANGED <<users_file, sessions_file, issued, ret, calls, ui>>
        /\ CASE self.op = "register_user" ->
                  IF register_error(users, self.username, self.password, self.role) # ""
                  THEN LET r == register_user_result(users, EmptyDict, self.username,
                                    self.password, self.role, "",
                                    <<now, now, now, now, now>>)
                       IN  /\ proc' = [proc EXCEPT ![p] = returned(self, r.result)]
                           /\ UNCHANGED now
                  ELSE \E t \in ClockReads(3) :
                          LET r == register_user_result(users, EmptyDict,
                                       self.username, self.password, self.role, "",
                                       <<t[1], t[2], t[3], t[3], t[3]>>)
                          IN  /\ proc' = [proc EXCEPT
                                             ![p] = [self EXCEPT !.pc = "save_users",
                                                                 !.users = r.users,
                                                                 !.result = r.result]]
                              /\ now' = t[3]
             [] self.op = "authenticate_user" ->
                  IF authenticate_user_result(users, self.username, self.password,
                                              now).saved
                  THEN \E t \in ClockReads(1) :
                          LET r == authenticate_user_result(users, self.username,
                                                            self.password, t[1])
                          IN  /\ proc' = [proc EXCEPT
                                             ![p] = [self EXCEPT !.pc = "save_users",
                                                                 !.users = r.users,
                                                                 !.result = r.result]]
                              /\ now' = t[1]
                  ELSE LET r == authenticate_user_result(users, self.username,
                                                         self.password, now)
                       IN  /\ proc' = [proc EXCEPT ![p] = returned(self, r.result)]
                           /\ UNCHANGED now
             [] self.op = "get_user_info" ->
                  /\ proc' = [proc EXCEPT
                                 ![p] = returned(self, Get(users, self.username))]
                  /\ UNCHANGED now

\* register_user as it would be returning once the user collection is saved
after_save_users_returning(op) == "idle"

\* what follows save_users: in register_user the call of create_session
\* (line 86), in authenticate_user the return (line 103)
after_save_users(op) == IF op = "register_user" THEN "load_sessions" ELSE "idle"

\* register_user and authenticate_user as they would be going on without
\* the save_users of lines 83 and 102
SaveUsers_skipped(p) ==
    LET self == proc[p]
    IN  /\ self.pc = "save_users"
        /\ proc' = [proc EXCEPT
                       ![p] = IF after_save_users(self.op) = "idle"
                              THEN returned(self, self.result)
                              ELSE [self EXCEPT !.pc = after_save_users(self.op),
                                                !.users = EmptyDict]]
        /\ UNCHANGED <<users_file, sessions_file, now, issued, ret, calls, ui>>

\* save_users as it would be putting only the caller's record into the
\* collection as it is on file at that moment
SaveUsers_merging(p) ==
    LET self == proc[p]
    IN  /\ self.pc = "save_users"
        /\ users_file' = save_users(Put(load_users(users_file), self.username,
                                        self.users[self.username]))
        /\ proc' = [proc EXCEPT
                       ![p] = IF after_save_users(self.op) = "idle"
                              THEN returned(self, self.result)
                              ELSE [self EXCEPT !.pc = after_save_users(self.op),
                                                !.users = EmptyDict]]
        /\ UNCHANGED <<sessions_file, now, issued, ret, calls, ui>>

\* register_user line 83 and authenticate_user line 102
SaveUsers(p) ==
    LET self == proc[p]
    IN  /\ self.pc = "save_users"
        /\ users_file' = save_users(self.users)
        /\ proc' = [proc EXCEPT
                       ![p] = IF after_save_users(self.op) = "idle"
                              THEN returned(self, self.result)
                              ELSE [self EXCEPT !.pc = after_save_users(self.op),
                                                !.users = EmptyDict]]
        /\ UNCHANGED <<sessions_file, now, issued, ret, calls, ui>>

\* create_session lines 108-116 (called directly or from register_user),
\* validate_session lines 123-133 and logout_user lines 141-143
LoadSessions(p) ==
    LET self == proc[p]
        sessions == load_sessions(sessions_file)
    IN  /\ self.pc = "load_sessions"
        /\ UNCHANGED <<users_file, sessions_file, ret, calls, ui>>
        /\ CASE self.op \in {"register_user", "create_session"} ->
                  \E session_id \in uuid4, t \in ClockReads(2) :
                     LET r == create_session_result(sessions, self.username,
                                                    session_id, t)
                     IN  /\ proc' = [proc EXCEPT
                                        ![p] = [self EXCEPT !.pc = "save_sessions",
                                                            !.sessions = r.sessions,
                                                            !.session_id = r.result]]
                         /\ issued' = issued \cup {session_id}
                         /\ now' = t[2]
             [] self.op = "validate_session" ->
                  IF validate_session_result(sessions, self.session_id, now).read
                  THEN \E t \in ClockReads(1) :
                          LET r == validate_session_result(sessions, self.session_id,
                                                           t[1])
                          IN  /\ proc' = [proc EXCEPT
                                             ![p] = IF r.saved
                                                    THEN [self EXCEPT
                                                             !.pc = "save_sessions",
                                                             !.sessions = r.sessions,
                                                             !.result = r.result]
                                                    ELSE returned(self, r.result)]
                              /\ now' = t[1]
                              /\ UNCHANGED issued
                  ELSE LET r == validate_session_result(sessions, self.session_id, now)
                       IN  /\ proc' = [proc EXCEPT ![p] = returned(self, r.result)]
                           /\ UNCHANGED <<now, issued>>
             [] self.op = "logout_user" ->
                  LET r == logout_user_result(sessions, self.session_id)
                  IN  /\ proc' = [proc EXCEPT
                                     ![p] = IF r.saved
                                            THEN [self EXCEPT !.pc = "save_sessions",
                                                              !.sessions = r.sessions]
                                            ELSE returned(self,
                                                     IF r.raised
                                                     THEN Raised("KeyError")
                                                     ELSE None)]
                      /\ UNCHANGED <<now, issued>>

\* the value a call returns once its session collection is saved
result_after_save_sessions(self) ==
    CASE self.op = "register_user" -> [self.result EXCEPT ![3] = self.session_id]
      [] self.op = "create_session" -> self.session_id
      [] self.op \in {"validate_session", "logout_user"} -> self.result

\* save_sessions as it would be, for a removal, taking only the caller's
\* token out of the collection as it is on file at that moment
SaveSessions_removing(p) ==
    LET self == proc[p]
    IN  /\ self.pc = "save_sessions"
        /\ sessions_file' =
              IF self.op \in {"logout_user", "validate_session"}
              THEN save_sessions(Del(load_sessions(sessions_file), self.session_id))
              ELSE save_sessions(self.sessions)
        /\ proc' = [proc EXCEPT
                       ![p] = returned(self, result_after_save_sessions(self))]
        /\ UNCHANGED <<users_file, now, issued, ret, calls, ui>>

\* create_session lines 117-119, validate_session lines 134-135 and
\* logout_user line 144
SaveSessions(p) ==
    LET self == proc[p]
    IN  /\ self.pc = "save_sessions"
        /\ sessions_file' = save_sessions(self.sessions)
        /\ proc' = [proc EXCEPT
                       ![p] = returned(self, result_after_save_sessions(self))]
        /\ UNCHANGED <<users_file, now, issued, ret, calls, ui>>

Step(p) ==
    \/ Call(p)
    \/ LoadUsers(p)
    \/ SaveUsers(p)
    \/ LoadSessions(p)
    \/ SaveSessions(p)

\* one process, as in the deployment the module is written for
NextOne == Tick \/ Step("p1")

SpecOne == Init /\ [][NextOne]_vars

\* The process is killed inside a call: the files stay as the call has left
\* them so far, its local variables are lost.
Crash(p) ==
    /\ proc[p].pc \notin {"idle", "crashed"}
    /\ proc' = [proc EXCEPT ![p] = [proc[p] EXCEPT !.pc = "crashed",
                                                   !.users = EmptyDict,
                                                   !.sessions = EmptyDict]]
    /\ UNCHANGED <<users_file, sessions_file, now, issued, ret, calls, ui>>

\* one process that may be killed at any point of a call
NextCrash == NextOne \/ Crash("p1")

SpecCrash == Init /\ [][NextCrash]_vars

\* the one call a process makes when two processes run side by side
FirstCall(p) == proc[p] = NotCalled /\ Call(p)

\* two processes with no coordination, each making one call
NextTwo ==
    \/ Tick
    \/ \E p \in Processes :
          \/ FirstCall(p)
          \/ LoadUsers(p)
          \/ SaveUsers(p)
          \/ LoadSessions(p)
          \/ SaveSessions(p)

SpecTwo == Init /\ [][NextTwo]_vars

\* the same two processes on files that earlier calls have filled
SpecTwoStored == InitStored /\ [][NextTwo]_vars

----------------------------------------------------------------------------
(* The Streamlit pages of one browser session.  Every user action makes    *)
(* the script run once more from the top: main_app.main, which shows the   *)
(* login page or calls the dashboard's main.  A script run is one step.    *)

\* len(password)
len(password) ==
    CASE password = "" -> 0
      [] password = "secret1" -> 7
      [] password = "other" -> 5

\* the options of the role selectbox
RoleOptions == {"investor", "investee"}

\* for key in keys: del st.session_state[key], where present
DelKeys(state, keys) == [x \in (DOMAIN state) \ keys |-> state[x]]

\* check_authentication as it would be without the validate_session call
check_authentication_result_trusting(sessions, state, t) ==
    LET state1 == IF "authenticated" \in DOMAIN state
                  THEN state
                  ELSE Put(state, "authenticated", FALSE)
    IN  [sessions |-> sessions, session_state |-> state1,
         result |-> state1.authenticated, validated |-> "not called"]

\* check_authentication as it would be without the assignment of line 271
check_authentication_result_still_authenticated(sessions, state, t) ==
    LET state1 == IF "authenticated" \in DOMAIN state
                  THEN state
                  ELSE Put(state, "authenticated", FALSE)
        v == validate_session_result(sessions, state1.session_id, t)
    IN  IF ~state1.authenticated
        THEN [sessions |-> sessions, session_state |-> state1,
              result |-> FALSE, validated |-> "not called"]
        ELSE IF {"session_id", "auth_manager"} \subseteq DOMAIN state1
        THEN IF ~v.result[1]
             THEN [sessions |-> v.sessions,
                   session_state |-> DelKeys(state1, {"current_user", "session_id"}),
                   result |-> FALSE, validated |-> "invalid"]
             ELSE [sessions |-> sessions, session_state |-> state1,
                   result |-> TRUE, validated |-> "valid"]
        ELSE [sessions |-> sessions, session_state |-> state1,
              result |-> TRUE, validated |-> "not called"]

\* The session collection and st.session_state as check_authentication
\* leaves them, the value returned, and what validate_session said if it was
\* called.  t is the clock read of line 131.
check_authentication_result(sessions, state, t) ==
    LET state1 == IF "authenticated" \in DOMAIN state
                  THEN state
                  ELSE Put(state, "authenticated", FALSE)
        v == validate_session_result(sessions, state1.session_id, t)
    IN  IF ~state1.authenticated
        THEN [sessions |-> sessions, session_state |-> state1,
              result |-> FALSE, validated |-> "not called"]
        ELSE IF {"session_id", "auth_manager"} \subseteq DOMAIN state1
        THEN IF ~v.result[1]
             THEN [sessions |-> v.sessions,
                   session_state |->
                       DelKeys(Put(state1, "authenticated", FALSE),
                               {"current_user", "session_id"}),
                   result |-> FALSE, validated |-> "invalid"]
             ELSE [sessions |-> sessions, session_state |-> state1,
                   result |-> TRUE, validated |-> "valid"]
        ELSE [sessions |-> sessions, session_state |-> state1,
              result |-> TRUE, validated |-> "not called"]

\* main_app.main and, under it, the dashboard's main up to its return of
\* line 310: check_authentication is called by the first and, if it passes,
\* once more by the second.  t holds the clock reads of the two calls.
main_result(sessions, state, t) ==
    LET c1 == check_authentication_result(sessions, state, t[1])
        c2 == check_authentication_result(c1.sessions, c1.session_state, t[2])
    IN  IF ~c1.result
        THEN [sessions |-> c1.sessions, session_state |-> c1.session_state,
              page |-> "login", validated |-> c1.validated]
        ELSE [sessions |-> c2.sessions, session_state |-> c2.session_state,
              page |-> IF c2.result THEN "dashboard" ELSE "login",
              validated |-> c2.validated]

\* show_login_page lines 160-161
with_auth_manager(state) ==
    IF "auth_manager" \in DOMAIN state THEN state ELSE Put(state, "auth_manager", TRUE)

\* lines 187-189 and 239-241
signed_in(state, session_id, user_info) ==
    Put(Put(Put(state, "session_id", session_id), "current_user", user_info),
        "authenticated", TRUE)

\* The login form submitted (lines 180-196).  t holds the clock reads of
\* authenticate_user (line 100) and create_session (lines 114, 115).
login_result(users, sessions, state, username, password, session_id, t) ==
    LET a == authenticate_user_result(users, username, password, t[1])
        s == create_session_result(sessions, username, session_id, <<t[2], t[3]>>)
    IN  IF username # "" /\ password # "" /\ a.result[1]
        THEN [users |-> a.users, sessions |-> s.sessions,
              session_state |-> signed_in(state, s.result, a.result[2]),
              rerun |-> TRUE]
        ELSE [users |-> users, sessions |-> sessions, session_state |-> state,
              rerun |-> FALSE]

\* The register form submitted (lines 222-244).  t holds the clock reads of
\* register_user and of the authenticate_user that follows it.
register_result(users, sessions, state, username, password, confirm, role, session_id, t) ==
    LET r == register_user_result(users, sessions, username, password, role,
                                  session_id, <<t[1], t[2], t[3], t[4], t[5]>>)
        a == authenticate_user_result(r.users, username, password, t[6])
    IN  IF /\ username # "" /\ password # "" /\ confirm # ""
           /\ password = confirm
           /\ len(password) >= 6
           /\ r.result[1]
        THEN IF r.result[3] # "" /\ a.result[1]
             THEN [users |-> a.users, sessions |-> r.sessions,
                   session_state |-> signed_in(state, r.result[3], a.result[2]),
                   rerun |-> TRUE]
             ELSE [users |-> r.users, sessions |-> r.sessions,
                   session_state |-> state, rerun |-> FALSE]
        ELSE [users |-> users, sessions |-> sessions, session_state |-> state,
              rerun |-> FALSE]

\* the logout button as it would be without the auth.logout_user call
ui_logout_user_result_local(sessions, state) ==
    [sessions |-> sessions,
     session_state |-> DelKeys(state, {"authenticated", "current_user",
                                       "session_id", "last_session_id"}),
     rerun |-> TRUE]

\* the module-level logout_user (lines 281-293), called by the logout button
ui_logout_user_result(sessions, state) ==
    [sessions |-> IF {"session_id", "auth_manager"} \subseteq DOMAIN state
                  THEN logout_user_result(sessions, state.session_id).sessions
                  ELSE sessions,
     session_state |-> DelKeys(state, {"authenticated", "current_user",
                                       "session_id", "last_session_id"}),
     rerun |-> TRUE]

\* what a script run leaves in run
rendered(m, event, rerun) ==
    [page |-> m.page, validated |-> m.validated, event |-> event, rerun |-> rerun]

\* A script run that handles no widget event: the run after st.rerun(), or
\* any other interaction with the page.  (save_sessions is called only
\* when a session was evicted; otherwise the content written here is the
\* content the file has.)
Rerun ==
    \E t \in ClockReads(2) :
        LET m == main_result(Sessions, session_state, t)
        IN  /\ session_state' = IF m.page = "login"
                                THEN with_auth_manager(m.session_state)
                                ELSE m.session_state
            /\ sessions_file' = save_sessions(m.sessions)
            /\ run' = rendered(m, "none", FALSE)
            /\ now' = t[2]
            /\ UNCHANGED <<users_file, issued, ret, calls, proc>>

\* The script run made by the login button, which the login page of the
\* last run showed.
Login(username, password) ==
    /\ run.page = "login"
    /\ ~run.rerun
    /\ \E t \in ClockReads(5) :
          LET m == main_result(Sessions, session_state, t)
              state == with_auth_manager(m.session_state)
              reads == <<t[3], t[4], t[5]>>
          IN  /\ now' = t[5]
              /\ UNCHANGED <<ret, calls, proc>>
              /\ IF /\ m.page = "login"
                    /\ login_result(Users, m.sessions, state, username, password,
                                    "", reads).rerun
                 THEN \E session_id \in uuid4 :
                         LET l == login_result(Users, m.sessions, state, username,
                                               password, session_id, reads)
                         IN  /\ users_file' = save_users(l.users)
                             /\ sessions_file' = save_sessions(l.sessions)
                             /\ issued' = issued \cup {session_id}
                             /\ session_state' = l.session_state
                             /\ run' = rendered(m, "login", TRUE)
                 ELSE /\ sessions_file' = save_sessions(m.sessions)
                      /\ session_state' = IF m.page = "login"
                                          THEN state
                                          ELSE m.session_state
                      /\ run' = rendered(m, IF m.page = "login"
                                            THEN "login" ELSE "none", FALSE)
                      /\ UNCHANGED <<users_file, issued>>

\* The script run made by the register button of the login page.
Register(username, password, confirm, role) ==
    /\ run.page = "login"
    /\ ~run.rerun
    /\ \E t \in ClockReads(8) :
          LET m == main_result(Sessions, session_state, t)
              state == with_auth_manager(m.session_state)
              reads == <<t[3], t[4], t[5], t[6], t[7], t[8]>>
              calls_it == /\ m.page = "login"
                          /\ username # "" /\ password # "" /\ confirm # ""
                          /\ password = confirm
                          /\ len(password) >= 6
                          /\ register_error(Users, username, password, role) = ""
          IN  /\ now' = t[8]
              /\ UNCHANGED <<ret, calls, proc>>
              /\ IF calls_it
                 THEN \E session_id \in uuid4 :
                         LET r == register_result(Users, m.sessions, state,
                                                  username, password, confirm,
                                                  role, session_id, reads)
                         IN  /\ users_file' = save_users(r.users)
                             /\ sessions_file' = save_sessions(r.sessions)
                             /\ issued' = issued \cup {session_id}
                             /\ session_state' = r.session_state
                             /\ run' = rendered(m, "register", r.rerun)
                 ELSE /\ sessions_file' = save_sessions(m.sessions)
                      /\ session_state' = IF m.page = "login"
                                          THEN state
                                          ELSE m.session_state
                      /\ run' = rendered(m, IF m.page = "login"
                                            THEN "register" ELSE "none", FALSE)
                      /\ UNCHANGED <<users_file, issued>>

\* The script run made by the logout button of the dashboard (line 327).
Logout ==
    /\ run.page = "dashboard"
    /\ ~run.rerun
    /\ \E t \in ClockReads(2) :
          LET m == main_result(Sessions, session_state, t)
              o == ui_logout_user_result(m.sessions, m.session_state)
          IN  /\ now' = t[2]
              /\ UNCHANGED <<users_file, issued, ret, calls, proc>>
              /\ IF m.page = "dashboard"
                 THEN /\ sessions_file' = save_sessions(o.sessions)
                      /\ session_state' = o.session_state
                      /\ run' = rendered(m, "logout", o.rerun)
                 ELSE /\ sessions_file' = save_sessions(m.sessions)
                      /\ session_state' = with_auth_manager(m.session_state)
                      /\ run' = rendered(m, "none", FALSE)

\* The script run made by a successful upload on the dashboard, which keeps
\* the analysis session id (excel_analysis_ui.py line 441).
Upload ==
    /\ run.page = "dashboard"
    /\ ~run.rerun
    /\ \E t \in ClockReads(2) :
          LET m == main_result(Sessions, session_state, t)
          IN  /\ now' = t[2]
              /\ UNCHANGED <<users_file, issued, ret, calls, proc>>
              /\ sessions_file' = save_sessions(m.sessions)
              /\ IF m.page = "dashboard"
                 THEN /\ session_state' = Put(m.session_state, "last_session_id",
                                              "analysis")
                      /\ run' = rendered(m, "upload", FALSE)
                 ELSE /\ session_state' = with_auth_manager(m.session_state)
                      /\ run' = rendered(m, "none", FALSE)

NextUI ==
    \/ Tick
    \/ Rerun
    \/ \E username \in Usernames, password \in Passwords : Login(username, password)
    \/ \E username \in Usernames, password \in Passwords, confirm \in Passwords,
          role \in RoleOptions : Register(username, password, confirm, role)
    \/ Logout
    \/ Upload

SpecUI == Init /\ [][NextUI]_vars

----------------------------------------------------------------------------
(* Properties of a sequential run *)

UsernameTaken == failure_message("Username already exists")

\* C1: register_user for a username that is already stored returns
\* (False, "Username already exists", "") and changes neither collection,
\* so the stored record stays that of the first registration.
C1_DuplicateRegistrationRefused ==
    [][(ret'.op = "register_user" /\ ret'.username \in DOMAIN Users)
       => /\ ret'.result = <<FALSE, UsernameTaken, "">>
          /\ users_file' = users_file
          /\ sessions_file' = sessions_file
          /\ Users'[ret'.username] = Users[ret'.username]]_vars

C1_Witness ==
    /\ ret.op = "register_user"
    /\ ret.username \in DOMAIN Users
    /\ ret.result = <<FALSE, UsernameTaken, "">>

\* C2: when register_user(u, p, r) succeeds, authenticate_user(u, p) called
\* next, before or after the clock moves on, returns (True, the record of u).
C2_AuthenticateAfterRegister ==
    [][(ret'.op = "register_user" /\ ret'.result[1])
       => \A password \in Passwords, role \in Roles :
             register_user(ret'.username, password, role)
             => \A t \in {now', now' + 1} :
                   LET a == authenticate_user_result(Users', ret'.username,
                                                     password, t)
                   IN  /\ a.result[1]
                       /\ a.result[2] = a.users[ret'.username]
                       /\ a.result[2] = logged_in(Users'[ret'.username], t)]_vars

C2_Witness ==
    /\ calls = 2
    /\ ret.op = "authenticate_user"
    /\ ret.result[1]
    /\ ret.result[2] = Users[ret.username]

\* C3 (as claimed): a session created at time T is reported valid by
\* validate_session at every time up to and including T + 24h and invalid at
\* every later time.
C3_ValidExactlyWithin24hOfCreation ==
    [][(ret'.op = "validate_session" /\ ret'.session_id \in DOMAIN Sessions)
       => (ret'.result[1]
           <=> now' <= fromisoformat(Sessions[ret'.session_id].created_at) + TTL)]_vars

\* C4: validate_session on a stored session with now > expires_at returns
\* (False, None) and writes the collection back without it, so that the same
\* call made again takes the unknown-identifier path.
C4_ExpiredSessionEvicted ==
    [][(/\ ret'.op = "validate_session"
        /\ ret'.session_id \in DOMAIN Sessions
        /\ now' > fromisoformat(Sessions[ret'.session_id].expires_at))
       => /\ ret'.result = <<FALSE, None>>
          /\ sessions_file' = save_sessions(Del(Sessions, ret'.session_id))
          /\ ret'.session_id \notin DOMAIN Sessions'
          /\ LET again == validate_session_result(Sessions', ret'.session_id, now')
             IN  ~again.read /\ ~again.saved /\ again.result = <<FALSE, None>>]_vars

C4_Witness ==
    /\ calls = 2
    /\ ret.op = "validate_session"
    /\ ret.result = <<FALSE, None>>
    /\ ret.session_id \in issued
    /\ ret.session_id \notin DOMAIN Sessions

\* C5: logout_user never raises and leaves its identifier absent, whether or
\* not it was stored; called twice in a row with one identifier, the second
\* call changes nothing.
C5_LogoutIdempotent ==
    [][ret'.op = "logout_user"
       => /\ ret'.result = None
          /\ ret'.session_id \notin DOMAIN Sessions'
          /\ LET again == logout_user_result(Sessions', ret'.session_id)
             IN  ~again.raised /\ again.sessions = Sessions'
          /\ (ret.op = "logout_user" /\ ret.session_id = ret'.session_id)
             => sessions_file' = sessions_file]_vars

C5_Witness ==
    /\ ret.op = "logout_user"
    /\ ret.result = None
    /\ ret.session_id \in issued
    /\ ret.session_id \notin DOMAIN Sessions

\* C6: a successful register_user(u, p, r) stores a record for u and returns
\* a non-empty session id that validate_session, called next, reports valid
\* for u.
C6_RegisterIssuesValidSession ==
    [][(ret'.op = "register_user" /\ ret'.result[1])
       => /\ ret'.username \in DOMAIN Users'
          /\ ret'.result[3] # ""
          /\ \A t \in {now', now' + 1} :
                validate_session_result(Sessions', ret'.result[3], t).result
                   = <<TRUE, Str(ret'.username)>>]_vars

C6_Witness ==
    /\ calls = 2
    /\ ret.op = "validate_session"
    /\ ret.result[1]
    /\ ret.result[2].str \in DOMAIN Users

\* C7: register_user with an empty username, an empty password or a role
\* other than investor and investee returns ok = False with a message and
\* an empty session id, and changes neither collection.
C7_InvalidRegistrationRefused ==
    [][ret'.op = "register_user"
       => \A password \in Passwords, role \in Roles :
             (/\ ret'.username = "" \/ password = ""
                    \/ role \notin {"investor", "investee"}
              /\ register_user(ret'.username, password, role))
             => /\ ret'.result[1] = FALSE
                /\ ret'.result[2].text # ""
                /\ ret'.result[3] = ""
                /\ users_file' = users_file
                /\ sessions_file' = sessions_file]_vars

C7_Witness ==
    /\ ret.op = "register_user"
    /\ ret.result[1] = FALSE
    /\ ret.result[2] \in {failure_message("Username and password are required"),
                          failure_message("Invalid role selected")}
    /\ ret.result[3] = ""

\* C8: authenticate_user returns the same (False, None) for an unknown
\* username and for a stored username with another password.
C8_RefusalsIndistinguishable ==
    [][ret'.op = "authenticate_user"
       => \A password \in Passwords :
             (/\ authenticate_user(ret'.username, password)
              /\ \/ ret'.username \notin DOMAIN Users
                 \/ ~password_matches(Users[ret'.username], password))
             => ret'.result = <<FALSE, None>>]_vars

C8_Witness ==
    /\ ret.op = "authenticate_user"
    /\ ret.username \in DOMAIN Users
    /\ ret.result = <<FALSE, None>>

\* C9: a successful authenticate_user(u, p) stores the current time as the
\* last_login of u and returns the updated record; every stored user has
\* last_login >= created_at.
C9_LastLoginRefreshed ==
    [][/\ (ret'.op = "authenticate_user" /\ ret'.result[1])
          => /\ Users'[ret'.username].last_login = isoformat(now')
             /\ ret'.result[2] = Users'[ret'.username]
       /\ \A username \in DOMAIN Users' :
             fromisoformat(Users'[username].last_login)
                >= fromisoformat(Users'[username].created_at)]_vars

C9_Witness ==
    /\ ret.op = "authenticate_user"
    /\ ret.result[1]
    /\ fromisoformat(Users[ret.username].last_login)
          > fromisoformat(Users[ret.username].created_at)

\* C10: no call removes a stored user record or changes any of its fields
\* other than last_login.
C10_UserRecordsKept ==
    [][\A username \in DOMAIN Users :
          /\ username \in DOMAIN Users'
          /\ [Users'[username] EXCEPT !.last_login = Users[username].last_login]
                = Users[username]]_vars

C10_Witness ==
    /\ ret.op = "register_user"
    /\ ret.result[1]
    /\ DOMAIN Users \ {ret.username} # {}

\* C11: every stored user record is kept under a non-empty username, has a
\* role of investor or investee and a non-empty password hash.
C11_UserRecordsWellFormed ==
    \A username \in DOMAIN Users :
        /\ username # ""
        /\ Users[username].role \in {"investor", "investee"}
        /\ Users[username].password # ""

C11_Witness ==
    \E u, v \in DOMAIN Users :
        /\ Users[u].role = "investor"
        /\ Users[v].role = "investee"
        /\ Users[u].password # Users[v].password

\* C12 (as claimed): every session record a call adds to the session
\* collection names a user that is in the user collection when the record is
\* created.
C12_SessionUserExistsAtCreation ==
    [][\A session_id \in (DOMAIN Sessions') \ (DOMAIN Sessions) :
          Sessions'[session_id].username \in DOMAIN Users']_vars

\* C13: create_session(u) returns for every u, stored or not, a token that
\* was not in the session collection; the collection it writes back is the
\* old one plus one record under that token, with username u and
\* expires_at 24 hours after the clock read.
C13_CreateSessionAddsOneRecord ==
    [][ret'.op = "create_session"
       => /\ ret'.result \notin DOMAIN Sessions
          /\ DOMAIN Sessions' = (DOMAIN Sessions) \cup {ret'.result}
          /\ Sessions'[ret'.result].username = ret'.username
          /\ fromisoformat(Sessions'[ret'.result].expires_at) = now' + TTL
          /\ \A session_id \in DOMAIN Sessions :
                Sessions'[session_id] = Sessions[session_id]
          /\ users_file' = users_file]_vars

C13_Witness ==
    /\ ret.op = "create_session"
    /\ ret.username \notin DOMAIN Users
    /\ Cardinality(DOMAIN Sessions) = 2
    /\ Sessions[ret.result].username = ret.username

\* C14 (as claimed): every stored session record has expires_at equal to
\* created_at plus exactly 24 hours.
C14_ExpiryIsCreationPlus24h ==
    \A session_id \in DOMAIN Sessions :
        fromisoformat(Sessions[session_id].expires_at)
           = fromisoformat(Sessions[session_id].created_at) + TTL

\* C15: validate_session on an unknown identifier returns (False, None), on
\* a stored identifier that has not expired (True, its username);
\* neither these calls nor get_user_info write users.json or sessions.json.
C15_ReadOnlyPathsWriteNothing ==
    [][/\ (ret'.op = "validate_session" /\ ret'.session_id \notin DOMAIN Sessions)
          => /\ ret'.result = <<FALSE, None>>
             /\ users_file' = users_file
             /\ sessions_file' = sessions_file
       /\ (/\ ret'.op = "validate_session"
           /\ ret'.session_id \in DOMAIN Sessions
           /\ now' <= fromisoformat(Sessions[ret'.session_id].expires_at))
          => /\ ret'.result = <<TRUE, Str(Sessions[ret'.session_id].username)>>
             /\ users_file' = users_file
             /\ sessions_file' = sessions_file
       /\ ret'.op = "get_user_info"
          => /\ ret'.result = Get(Users, ret'.username)
             /\ users_file' = users_file
             /\ sessions_file' = sessions_file]_vars

C15_Witness ==
    /\ ret.op = "validate_session"
    /\ ret.result[1]
    /\ ret.session_id \in DOMAIN Sessions
    /\ now = fromisoformat(Sessions[ret.session_id].expires_at)

\* C16 (as claimed): the record a successful authenticate_user returns has
\* exactly the fields role, full_name, client_id, created_at and last_login,
\* and so not the stored password hash.
C16_ReturnedRecordHasNoPasswordHash ==
    [][(ret'.op = "authenticate_user" /\ ret'.result[1])
       => DOMAIN ret'.result[2]
             = {"role", "full_name", "client_id", "created_at", "last_login"}]_vars

\* C18: a stored client id has the prefix INV exactly when the role of its
\* user is investor and IVE exactly when it is investee, and the message of
\* a successful register_user carries the client id stored for the new user.
C18_ClientIdPrefixFollowsRole ==
    [][/\ \A username \in DOMAIN Users' :
             /\ Users'[username].client_id.role_prefix = "INV"
                   <=> Users'[username].role = "investor"
             /\ Users'[username].client_id.role_prefix = "IVE"
                   <=> Users'[username].role = "investee"
       /\ (ret'.op = "register_user" /\ ret'.result[1])
          => ret'.result[2] = success_message(Users'[ret'.username].client_id)]_vars

C18_Witness ==
    /\ ret.op = "register_user"
    /\ ret.result[1]
    /\ Users[ret.username].role = "investee"
    /\ ret.result[2].client_id.role_prefix = "IVE"
    /\ ret.result[2].client_id = Users[ret.username].client_id

\* C17: while users.json is missing, unreadable or not JSON, load_users gives
\* the empty collection; authenticate_user returns (False, None) whatever
\* the username and password and writes nothing, and get_user_info returns
\* None; neither raises.
C17_UnreadableUsersFileIsEmpty ==
    [][~Readable(users_file)
       => /\ DOMAIN load_users(users_file) = {}
          /\ ret'.op = "authenticate_user"
             => /\ ret'.result = <<FALSE, None>>
                /\ users_file' = users_file
                /\ sessions_file' = sessions_file
          /\ ret'.op = "get_user_info" => ret'.result = None]_vars

C17_Witness ==
    /\ ~Readable(users_file)
    /\ ret.op = "authenticate_user"
    /\ ret.result = <<FALSE, None>>
    /\ ret.username # ""
    /\ \E session_id \in DOMAIN Sessions :
          Sessions[session_id].username = ret.username

\* C22: a stored session record, expired or not, is still stored unchanged
\* after every call other than validate_session and logout_user of its own
\* identifier: no call on another identifier or on users sweeps it out.
C22_ExpiredSessionsStayUntilValidated ==
    [][\A session_id \in DOMAIN Sessions :
          ~(/\ ret'.op \in {"validate_session", "logout_user"}
            /\ ret'.session_id = session_id)
          => /\ session_id \in DOMAIN Sessions'
             /\ Sessions'[session_id] = Sessions[session_id]]_vars

C22_Witness ==
    /\ calls = 2
    /\ ret.op \in {"create_session", "register_user", "validate_session",
                   "logout_user", "authenticate_user"}
    /\ \E session_id \in DOMAIN Sessions :
          /\ now > fromisoformat(Sessions[session_id].expires_at)
          /\ (ret.op \in {"validate_session", "logout_user"}
              => ret.session_id \in Tokens \ {session_id})

\* C27: an authenticate_user that returns (False, None) leaves users.json,
\* and so every last_login, as it was; no authenticate_user, refused or not,
\* changes sessions.json.
C27_FailedLoginWritesNothing ==
    [][ret'.op = "authenticate_user"
       => /\ sessions_file' = sessions_file
          /\ ~ret'.result[1]
             => /\ users_file' = users_file
                /\ \A username \in DOMAIN Users :
                      Users'[username].last_login = Users[username].last_login]_vars

C27_Witness ==
    /\ ret.op = "authenticate_user"
    /\ ~ret.result[1]
    /\ ret.username \in DOMAIN Users
    /\ now > fromisoformat(Users[ret.username].last_login)
    /\ DOMAIN Sessions # {}

\* C26: logout_user(t) and validate_session(t), evicting or not, leave
\* every record other than that of t as it was, so that validate_session on
\* another token that has not expired still returns (True, its username).
C26_RemovalTouchesOneToken ==
    [][ret'.op \in {"logout_user", "validate_session"}
       => \A session_id \in (DOMAIN Sessions) \ {ret'.session_id} :
             /\ session_id \in DOMAIN Sessions'
             /\ Sessions'[session_id] = Sessions[session_id]
             /\ now' <= fromisoformat(Sessions[session_id].expires_at)
                => validate_session_result(Sessions', session_id, now').result
                      = <<TRUE, Str(Sessions[session_id].username)>>]_vars

C26_Witness ==
    /\ ret.op = "logout_user"
    /\ ret.session_id \in issued
    /\ ret.session_id \notin DOMAIN Sessions
    /\ \E session_id \in DOMAIN Sessions :
          /\ Sessions[session_id].username = "alice"
          /\ validate_session_result(Sessions, session_id, now).result
                = <<TRUE, Str("alice")>>

\* C28: a token that uuid4 has issued and that is not stored is not stored
\* after any further call; validate_session reporting a token invalid and
\* logout_user leave the token not stored; and validate_session on a token
\* that is not stored returns (False, None).  So once an issued token has
\* been reported invalid or logged out, every later validate_session on it
\* returns (False, None).
C28_InvalidatedStaysInvalid ==
    [][/\ \A session_id \in issued \ DOMAIN Sessions :
             /\ session_id \notin DOMAIN Sessions'
             /\ (ret'.op = "validate_session" /\ ret'.session_id = session_id)
                => ret'.result = <<FALSE, None>>
       /\ (\/ ret'.op = "logout_user"
           \/ ret'.op = "validate_session" /\ ~ret'.result[1])
          => /\ ret'.session_id \notin DOMAIN Sessions'
             /\ \A t \in now'..MaxTime :
                   validate_session_result(Sessions', ret'.session_id, t).result
                      = <<FALSE, None>>]_vars

C28_Witness ==
    /\ calls = 2
    /\ now = 0
    /\ ret.op = "validate_session"
    /\ ret.result = <<FALSE, None>>
    /\ ret.session_id \in issued
    /\ ret.session_id \notin DOMAIN Sessions

----------------------------------------------------------------------------
(* Properties of calls followed one file access at a time *)

\* C19: whenever a call has returned and its caller is in control, all the
\* call has to write is in the files: after a successful register_user both
\* the new user record and the session issued for it, after a successful
\* authenticate_user the returned record, after create_session the new
\* session; a session found expired or logged out is gone.
C19_WritesCompleteOnReturn ==
    \A p \in Processes :
        LET self == proc[p]
        IN  self.pc = "idle"
            => /\ (self.op = "register_user" /\ self.result[1])
                  => /\ self.username \in DOMAIN Users
                     /\ password_matches(Users[self.username], self.password)
                     /\ self.result[3] \in DOMAIN Sessions
                     /\ Sessions[self.result[3]].username = self.username
               /\ (self.op = "authenticate_user" /\ self.result[1])
                  => /\ self.username \in DOMAIN Users
                     /\ Users[self.username] = self.result[2]
               /\ self.op = "create_session"
                  => /\ self.result \in DOMAIN Sessions
                     /\ Sessions[self.result].username = self.username
               /\ (self.op = "validate_session" /\ ~self.result[1])
                  => self.session_id \notin DOMAIN Sessions
               /\ self.op = "logout_user"
                  => self.session_id \notin DOMAIN Sessions

C19_Witness ==
    /\ proc["p1"].pc = "idle"
    /\ proc["p1"].op = "register_user"
    /\ proc["p1"].result[1]
    /\ proc["p1"].result[3] \in DOMAIN Sessions
    /\ Cardinality(DOMAIN Users) = 2

\* C20: when a register_user of one process saves the user collection after
\* a register_user of the other process for the same username with another
\* password has saved it, the stored record becomes that of the later writer
\* and the earlier registrant's password is refused from then on; where both
\* calls have returned ok = True, each with a session id, exactly one of the
\* two passwords authenticates.
C20_LastRegistrationWins ==
    [][\A p, q \in Processes :
          LET u == proc[p].username
          IN  /\ (/\ p # q
                  /\ proc[p].op = "register_user"
                  /\ proc[q].op = "register_user"
                  /\ proc[p].pc = "save_users"
                  /\ proc'[p].pc # "save_users"
                  /\ proc[q].pc \in {"load_sessions", "save_sessions", "idle"}
                  /\ proc[q].result[1]
                  /\ proc[q].username = u
                  /\ proc[q].password # proc[p].password)
                 => /\ password_matches(Users[u], proc[q].password)
                    /\ DOMAIN Users' = {u}
                    /\ password_matches(Users'[u], proc[p].password)
                    /\ authenticate_user_result(Users', u, proc[q].password,
                                                now').result = <<FALSE, None>>
              /\ (/\ p # q
                  /\ proc'[p].pc = "idle"
                  /\ proc'[q].pc = "idle"
                  /\ proc'[p].op = "register_user"
                  /\ proc'[q].op = "register_user"
                  /\ proc'[p].result[1]
                  /\ proc'[q].result[1]
                  /\ proc'[q].username = u
                  /\ proc'[q].password # proc'[p].password)
                 => /\ proc'[p].result[3] # ""
                    /\ proc'[q].result[3] # ""
                    /\ u \in DOMAIN Users'
                    /\ password_matches(Users'[u], proc'[p].password)
                          # password_matches(Users'[u], proc'[q].password)]_vars

C20_Witness ==
    /\ proc["p1"].pc = "idle"
    /\ proc["p2"].pc = "idle"
    /\ proc["p1"].op = "register_user"
    /\ proc["p2"].op = "register_user"
    /\ proc["p1"].username = proc["p2"].username
    /\ proc["p1"].result[1]
    /\ proc["p2"].result[1]
    /\ proc["p1"].result[3] # ""
    /\ proc["p2"].result[3] # ""
    /\ password_matches(Users[proc["p1"].username], proc["p2"].password)
    /\ ~password_matches(Users[proc["p1"].username], proc["p1"].password)

\* C30: at every point of a register_user for u, while it runs, after it
\* has returned and after the process was killed inside it, the session
\* collection holds the session issued by that call only if the user
\* collection holds u: save_users (line 83) comes before save_sessions
\* (line 117).
C30_UserSavedBeforeSession ==
    \A p \in Processes :
        LET self == proc[p]
        IN  (/\ self.op = "register_user"
             /\ self.session_id \in DOMAIN Sessions)
            => /\ Sessions[self.session_id].username = self.username
               /\ self.username \in DOMAIN Users
               /\ password_matches(Users[self.username], self.password)

\* a first registration killed between its two writes
C30_Witness ==
    /\ proc["p1"].op = "register_user"
    /\ proc["p1"].pc = "crashed"
    /\ calls = 1
    /\ proc["p1"].username \in DOMAIN Users
    /\ DOMAIN Sessions = {}

\* a removal of a session: logout_user, or validate_session finding it expired
Invalidation(self) ==
    \/ self.op = "logout_user"
    \/ self.op = "validate_session" /\ ~self.result[1]

\* C21: when a removal by one process writes the session collection back
\* after the other process has removed another token that the writer's copy
\* still holds, that token is stored again as the writer loaded it, although
\* the call that removed it has returned, and validate_session on it returns
\* (True, its username) unless it has expired.
C21_RemovedTokenRestored ==
    [][\A p, q \in Processes :
          LET token == proc[q].session_id
          IN  (/\ p # q
               /\ proc[p].pc = "save_sessions"
               /\ proc'[p].pc = "idle"
               /\ Invalidation(proc[p])
               /\ proc[q].pc = "idle"
               /\ Invalidation(proc[q])
               /\ token \in DOMAIN proc[p].sessions
               /\ token \notin DOMAIN Sessions)
              => /\ Sessions' = proc[p].sessions
                 /\ proc[p].session_id \notin DOMAIN Sessions'
                 /\ token \in DOMAIN Sessions'
                 /\ now' <= fromisoformat(Sessions'[token].expires_at)
                    => validate_session_result(Sessions', token, now').result
                          = <<TRUE, Str(Sessions'[token].username)>>]_vars

C21_Witness ==
    \E p, q \in Processes :
        /\ proc[p].pc = "idle"
        /\ proc[q].pc = "idle"
        /\ proc[p].op \in {"logout_user", "validate_session"}
        /\ proc[q].op = "logout_user"
        /\ proc[q].result = None
        /\ proc[p].session_id \in issued \ DOMAIN Sessions
        /\ proc[q].session_id \in DOMAIN Sessions
        /\ validate_session_result(Sessions, proc[q].session_id, now).result
              = <<TRUE, Str("alice")>>

\* C29: when an authenticate_user of one process writes the user collection
\* back from a copy loaded before a register_user of the other process saved
\* its new user, that user is not stored any more: get_user_info returns
\* None and authenticate_user with the registered password is refused,
\* although register_user returns ok = True.
C29_LoginDropsRegistration ==
    [][\A p, q \in Processes :
          LET u2 == proc[q].username
          IN  (/\ p # q
               /\ proc[p].op = "authenticate_user"
               /\ proc[p].pc = "save_users"
               /\ proc'[p].pc = "idle"
               /\ proc[q].op = "register_user"
               /\ proc[q].pc \in {"load_sessions", "save_sessions", "idle"}
               /\ proc[q].result[1]
               /\ u2 \in DOMAIN Users
               /\ u2 \notin DOMAIN proc[p].users)
              => /\ Users' = proc[p].users
                 /\ Get(Users', u2) = None
                 /\ authenticate_user_result(Users', u2, proc[q].password,
                                             now').result = <<FALSE, None>>
                 /\ proc'[p].result[1]]_vars

C29_Witness ==
    \E p, q \in Processes :
        /\ proc[p].pc = "idle"
        /\ proc[p].op = "authenticate_user"
        /\ proc[p].result[1]
        /\ proc[q].pc = "idle"
        /\ proc[q].op = "register_user"
        /\ proc[q].result[1]
        /\ validate_session_result(Sessions, proc[q].result[3], now).result
              = <<TRUE, Str(proc[q].username)>>
        /\ Get(Users, proc[q].username) = None
        /\ authenticate_user_result(Users, proc[q].username, proc[q].password,
                                    now).result = <<FALSE, None>>

----------------------------------------------------------------------------
(* Properties of the browser session *)

\* st.session_state.authenticated is present and True
Authenticated(state) == "authenticated" \in DOMAIN state /\ state.authenticated

\* C23: between script runs, whenever st.session_state.authenticated is True
\* both session_id and current_user are in st.session_state.
C23_AuthenticatedHasSessionAndUser ==
    Authenticated(session_state)
    => {"session_id", "current_user"} \subseteq DOMAIN session_state

C23_Witness ==
    /\ Authenticated(session_state)
    /\ run.page = "dashboard"
    /\ run.event = "upload"
    /\ session_state.current_user = Users[Sessions[session_state.session_id].username]

\* C24: a script run renders the dashboard only if validate_session, called
\* in that run for st.session_state.session_id, returned valid, and the
\* token is then a stored one; a run in which validate_session returned
\* invalid leaves authenticated False and neither current_user nor
\* session_id in st.session_state, and shows the login page.
C24_DashboardOnlyAfterValidation ==
    /\ run.page = "dashboard" => run.validated = "valid"
    /\ (run.page = "dashboard" /\ ~run.rerun)
       => /\ Authenticated(session_state)
          /\ "session_id" \in DOMAIN session_state
          /\ session_state.session_id \in DOMAIN Sessions
    /\ run.validated = "invalid"
       => /\ run.page = "login"
          /\ "authenticated" \in DOMAIN session_state
          /\ ~session_state.authenticated
          /\ "current_user" \notin DOMAIN session_state
          /\ "session_id" \notin DOMAIN session_state

\* a run that found the session expired and showed the login page
C24_Witness ==
    /\ run.validated = "invalid"
    /\ run.page = "login"
    /\ issued # {}
    /\ DOMAIN Sessions = {}
    /\ ~Authenticated(session_state)

\* C25: the script run that handles the logout button takes the token of the
\* browser session out of sessions.json and the keys authenticated,
\* current_user, session_id and last_session_id out of st.session_state;
\* from a state that is not authenticated every script run shows the login
\* page, and only a successful login or registration makes the state
\* authenticated again.
C25_LogoutEndsSession ==
    [][/\ (run'.event = "logout" /\ ~run.rerun)
          => /\ session_state.session_id \notin DOMAIN Sessions'
             /\ DOMAIN session_state'
                   \cap {"authenticated", "current_user", "session_id",
                         "last_session_id"} = {}
             /\ run'.rerun
       /\ ~Authenticated(session_state)
          => /\ ui' # ui => run'.page = "login"
             /\ Authenticated(session_state')
                => run'.event \in {"login", "register"} /\ run'.rerun
       /\ (~Authenticated(session_state') /\ run'.page = "dashboard")
          => run'.event = "logout" /\ run'.rerun]_vars

\* the login page shown by the script run that follows a logout
C25_Witness ==
    /\ now = 0
    /\ issued # {}
    /\ DOMAIN Sessions = {}
    /\ run.page = "login"
    /\ run.event = "none"
    /\ "authenticated" \in DOMAIN session_state
    /\ ~session_state.authenticated
    /\ "last_session_id" \notin DOMAIN session_state

====
